---- MODULE Spec2Model ----
(***************************************************************************)
(* A model of net_models: the routed-port / OSPF interface models of       *)
(* models/interfaces/L3InterfaceModels.py and the table loader of          *)
(* loaders/ExcelLoader.py.                                                 *)
(*                                                                         *)
(* Python values are encoded as follows.  Optional[T] is a sequence of     *)
(* length at most one: None is <<>> and a present value v is <<v>>.        *)
(* Optional strings and the tri-state Optional[bool] use the string        *)
(* "None" for None.  An IPv4Interface is [ip, plen] with ip a 32 bit       *)
(* integer; an IPv4Network is [ip, plen] with the host bits of ip zero.    *)
(***************************************************************************)
EXTENDS Integers, Sequences, FiniteSets, TLC

VARIABLES
    neighbor,             \* InterfaceModel.neighbor, per interface
    discovery_protocols,  \* InterfaceModel.discovery_protocols, per interface
    lag_member,           \* InterfaceModel.lag_member, per interface
    l3_port,              \* InterfaceModel.l3_port, per interface
    description,          \* InterfaceModel.description, per interface
    heap,                 \* the InterfaceOspfConfig objects, by identity
    templates,            \* ExcelLoader.templates
    bgp,                  \* host.config / .routing / .bgp, per host
    peer_groups,          \* load_bgp_neighbors: its local list peer_groups
    vlan_definitions,     \* switches group: config.vlan_definitions
    authentications,      \* the InterfaceOspfAuthentication objects constructed
    loading,              \* the load_* call that is running, or "idle"
    rows,                 \* rows processed and calls made on the model so far
    linked,               \* the <<a side, z side>> of every link row that returned
    last                  \* the last call or row processed, and its outcome

vars == <<neighbor, discovery_protocols, lag_member, l3_port, description, heap,
          templates, bgp, peer_groups, vlan_definitions, authentications, loading,
          rows, linked, last>>

-----------------------------------------------------------------------------
(* Bounds *)

\* longest IPv4 address list a container is driven to
MaxAddrs == 3
\* rows processed in one run, over all tables
MaxRows == 2
\* template rows, link rows and edits of one run with OSPF templates
MaxOspfRows == 4
\* router rows and neighbour rows of one run of the BGP tables
MaxBgpRows == 3

-----------------------------------------------------------------------------
(* Python values *)

None == <<>>
Some(v) == <<v>>

\* dotted quad a.b.c.d as the integer ipaddress keeps
IP(a, b, c, d) == ((a * 256 + b) * 256 + c) * 256 + d

RECURSIVE Pow2(_)
Pow2(n) == IF n = 0 THEN 1 ELSE 2 * Pow2(n - 1)

\* IPv4Network.network_address of the network of prefix length plen holding ip
NetworkAddress(ip, plen) == ip - (ip % Pow2(32 - plen))

\* IPv4Network.broadcast_address
BroadcastAddress(ip, plen) == NetworkAddress(ip, plen) + Pow2(32 - plen) - 1

\* `address in other.network` for two IPv4Interface values:
\* IPv4Network.__contains__ on an address compares the masked ip
InNetwork(address, other) ==
    NetworkAddress(address.ip, other.plen) = NetworkAddress(other.ip, other.plen)

\* list.remove(x): the list without its first element equal to x
RemoveFirst(s, x) ==
    LET hits == {k \in 1..Len(s) : s[k] = x}
        k0 == CHOOSE k \in hits : \A j \in hits : k <= j
    IN  IF hits = {} THEN s
        ELSE SubSeq(s, 1, k0 - 1) \o SubSeq(s, k0 + 1, Len(s))

-----------------------------------------------------------------------------
(* The inventory: hosts and their interfaces exist before any table is     *)
(* loaded; the loader looks them up.                                       *)

Hosts == {"R1", "R2"}
LagGroups == {1, 2}

\* f"Port-channel{group}"
PortChannel(g) == IF g = 1 THEN "Port-channel1" ELSE "Port-channel2"

\* an interface is identified by <<host name, interface name>>
PhysicalInterfaces == {<<"R1", "Gi0/0">>, <<"R2", "Gi0/0">>, <<"R2", "Gi0/1">>}

PortChannelInterfaces == {<<h, PortChannel(g)>> : h \in Hosts, g \in LagGroups}

Interfaces == PhysicalInterfaces \cup PortChannelInterfaces

\* the value of a local variable: the one element of a singleton set,
\* computed once
The(S) == CHOOSE x \in S : TRUE

-----------------------------------------------------------------------------
(* L3InterfaceModels.py *)

\* InterfaceIPv4Address._validate_address: an interface address is not the
\* network or broadcast address of its network (/31 and /32 have neither)
ipv4_is_assignable(address) ==
    \/ address.plen >= 31
    \/ /\ address.ip # NetworkAddress(address.ip, address.plen)
       /\ address.ip # BroadcastAddress(address.ip, address.plen)

\* InterfaceIPv4Address(address=..., secondary=...)
InterfaceIPv4Address(address, secondary) ==
    [address |-> address, secondary |-> secondary]

\* InterfaceIPv4Container.validate_non_overlapping: TRUE when it returns
\* values, FALSE when it raises
validate_non_overlapping(addresses) ==
    \/ addresses = None
    \/ LET list == addresses[1] IN
       \A k \in 1..Len(list) :
          LET other_addresses == RemoveFirst(list, list[k]) IN
          \A o \in 1..Len(other_addresses) :
             ~ InNetwork(list[k].address, other_addresses[o].address)

\* InterfaceIPv4Container.validate_single_primary: TRUE when it returns
\* values, FALSE when it raises
validate_single_primary(addresses) ==
    \/ addresses = None
    \/ Len(addresses[1]) = 1
    \/ LET list == addresses[1]
           primary_addresses ==
               {k \in 1..Len(list) : list[k].secondary \in {"False", "None"}}
       IN  ~ (Cardinality(primary_addresses) > 1)

\* InterfaceIPv4Container(): every root validator runs
InterfaceIPv4ContainerValid(container) ==
    /\ validate_non_overlapping(container.addresses)
    /\ validate_single_primary(container.addresses)

\* BaseNetModel.clone() of a container: a new container built from the
\* values of this one, so the validators run again
clone_container(container) ==
    [ok |-> InterfaceIPv4ContainerValid(container), value |-> container]

\* InterfaceRouteportModel()
InterfaceRouteportModel ==
    [ipv4 |-> None, vrf |-> "None", ospf |-> None, bfd |-> "None"]

\* InterfaceRouteportModel.add_ipv4_address(address).  arg is
\* [is_model, address, secondary]: an InterfaceIPv4Address, or a bare
\* IPv4Interface (is_model = FALSE) from which one is built.  The result is
\* the port afterwards and whether the call returned (ok) or raised.
add_ipv4_address(port, arg) ==
    LET p1 == IF port.ipv4 = None
              THEN [port EXCEPT !.ipv4 = Some([addresses |-> None])]
              ELSE port
        c1 == p1.ipv4[1]
        c2 == IF c1.addresses = None
              THEN [c1 EXCEPT !.addresses = Some(<<>>)]
              ELSE c1
        address == IF arg.is_model
                   THEN InterfaceIPv4Address(arg.address, arg.secondary)
                   ELSE InterfaceIPv4Address(arg.address, "None")
        \* self.ipv4.addresses.append(address): the list is changed in place
        c3 == [c2 EXCEPT !.addresses = Some(Append(c2.addresses[1], address))]
        cloned == clone_container(c3)
    IN  IF ~ arg.is_model /\ ~ ipv4_is_assignable(arg.address)
        THEN \* InterfaceIPv4Address(address=address) raises before the append
             [port |-> [p1 EXCEPT !.ipv4 = Some(c2)], ok |-> FALSE]
        ELSE IF cloned.ok
        THEN [port |-> [p1 EXCEPT !.ipv4 = Some(cloned.value)], ok |-> TRUE]
        ELSE \* clone() raises: self.ipv4 keeps the list with the new address
             [port |-> [p1 EXCEPT !.ipv4 = Some(c3)], ok |-> FALSE]

\* the address list of a routed port (empty when there is no container or
\* no list)
AddressesOf(port) ==
    IF port.ipv4 = None THEN <<>>
    ELSE IF port.ipv4[1].addresses = None THEN <<>>
    ELSE port.ipv4[1].addresses[1]

-----------------------------------------------------------------------------
(* State after construction *)

\* the bookkeeping of a run with no call made yet
NoCall == [op |-> "none", ok |-> TRUE, err |-> "", row |-> <<>>]

\* ExcelLoader.__init__ over a populated inventory: no interface has a
\* neighbour, discovery config, LAG info or routed port; templates == {}
Init ==
    /\ neighbor = [i \in Interfaces |-> None]
    /\ discovery_protocols = [i \in Interfaces |-> "None"]
    /\ lag_member = [i \in Interfaces |-> None]
    /\ l3_port = [i \in Interfaces |-> None]
    /\ description = [i \in Interfaces |-> "None"]
    /\ heap = <<>>
    /\ templates = [ospf |-> None]
    /\ bgp = [h \in Hosts |-> [level |-> "config", process |-> None]]
    /\ peer_groups = <<>>
    /\ vlan_definitions = None
    /\ authentications = <<>>
    /\ loading = "idle"
    /\ rows = 0
    /\ linked = {}
    /\ last = NoCall

-----------------------------------------------------------------------------
(* Direct use of a routed port: add_ipv4_address called by a client *)

\* the port the calls are made on
AddrPort == <<"R1", "Gi0/0">>

AddrIps == {IP(10, 0, 0, 1), IP(10, 0, 0, 2), IP(10, 0, 1, 1)}
AddrPrefixes == {24, 30}

\* the arguments of add_ipv4_address: InterfaceIPv4Address objects with any
\* secondary flag, and bare IPv4Interface values
AddrArgs ==
    [is_model : {TRUE}, address : [ip : AddrIps, plen : AddrPrefixes],
     secondary : {"None", "False", "True"}]
    \cup
    [is_model : {FALSE}, address : [ip : AddrIps, plen : AddrPrefixes],
     secondary : {"None"}]

\* a routed port that was constructed empty
InitAddr ==
    /\ neighbor = [i \in Interfaces |-> None]
    /\ discovery_protocols = [i \in Interfaces |-> "None"]
    /\ lag_member = [i \in Interfaces |-> None]
    /\ l3_port = [i \in Interfaces |->
                    IF i = AddrPort THEN Some(InterfaceRouteportModel) ELSE None]
    /\ description = [i \in Interfaces |-> "None"]
    /\ heap = <<>>
    /\ templates = [ospf |-> None]
    /\ bgp = [h \in Hosts |-> [level |-> "config", process |-> None]]
    /\ peer_groups = <<>>
    /\ vlan_definitions = None
    /\ authentications = <<>>
    /\ loading = "idle"
    /\ rows = 0
    /\ linked = {}
    /\ last = NoCall

\* port.add_ipv4_address(arg), returning or raising
AddIpv4Address(i, arg) ==
    /\ l3_port[i] # None
    /\ Len(AddressesOf(l3_port[i][1])) < MaxAddrs
    /\ rows' = rows + 1
    /\ LET r == add_ipv4_address(l3_port[i][1], arg) IN
       /\ l3_port' = [l3_port EXCEPT ![i] = Some(r.port)]
       /\ last' = [op |-> "add_ipv4_address", ok |-> r.ok,
                   err |-> IF r.ok THEN "" ELSE "ValidationError",
                   row |-> [interface |-> i, arg |-> arg]]
    /\ UNCHANGED <<neighbor, discovery_protocols, lag_member, description,
                   heap, templates, bgp, peer_groups, vlan_definitions,
                   authentications, loading, linked>>

NextAddr == \E arg \in AddrArgs : AddIpv4Address(AddrPort, arg)

SpecAddr == InitAddr /\ [][NextAddr]_vars

-----------------------------------------------------------------------------
(* ExcelLoader: one load_* call walks the rows of its table in order; a    *)
(* row that raises ends the call, the rows after it are never reached.     *)

\* a load_* call starts: nothing happens before the first row
BeginLoad(op) ==
    /\ loading = "idle"
    /\ loading' = op
    /\ last' = [op |-> "begin", ok |-> TRUE, err |-> "", row |-> <<>>]
    /\ UNCHANGED <<neighbor, discovery_protocols, lag_member, l3_port,
                   description, heap, templates, bgp, peer_groups,
                   vlan_definitions, authentications, rows, linked>>

\* the running load_* call returns: its table has no further row
EndLoad ==
    /\ loading # "idle"
    /\ loading' = "idle"
    /\ last' = [op |-> "end", ok |-> TRUE, err |-> "", row |-> <<>>]
    /\ UNCHANGED <<neighbor, discovery_protocols, lag_member, l3_port,
                   description, heap, templates, bgp, peer_groups,
                   vlan_definitions, authentications, rows, linked>>

\* mutant: a row that raises is skipped and the loop goes on
RowDone_continue(op, row, ok, err) ==
    /\ rows' = rows + 1
    /\ loading' = loading
    /\ linked' = IF ok /\ op \in {"physical_link", "l3_link"}
                 THEN linked \cup {<<<<row.a_host, row.a_interface>>,
                                     <<row.z_host, row.z_interface>>>>}
                 ELSE linked
    /\ last' = [op |-> op, ok |-> ok, err |-> err, row |-> row]

\* `for index, row in df.iterrows()`: the row returned (ok), or it raised
\* and the exception ended the call
RowDone(op, row, ok, err) ==
    /\ rows' = rows + 1
    /\ loading' = IF ok THEN loading ELSE "idle"
    /\ linked' = IF ok /\ op \in {"physical_link", "l3_link"}
                 THEN linked \cup {<<<<row.a_host, row.a_interface>>,
                                     <<row.z_host, row.z_interface>>>>}
                 ELSE linked
    /\ last' = [op |-> op, ok |-> ok, err |-> err, row |-> row]

\* the interface a link row names on its a side and on its z side
ASide(row) == <<row.a_host, row.a_interface>>
ZSide(row) == <<row.z_host, row.z_interface>>

\* mutant: only the a side gets its neighbour
set_neighbors_one_sided(nb, a, z) == [nb EXCEPT ![a] = Some(z)]

\* a_interface.neighbor = InterfaceNeighbor(z...); z_interface.neighbor =
\* InterfaceNeighbor(a...)
set_neighbors(nb, a, z) == [nb EXCEPT ![a] = Some(z), ![z] = Some(a)]

-----------------------------------------------------------------------------
(* load_physical_links *)

\* the default_lag_mode parameter
default_lag_mode == "active"

\* CDP section: cdp is "absent" (no cdp_enabled column), "None", "True",
\* "False" or "other" (a cell that is neither None nor a bool, for which
\* cdp_config stays None)
\* `cdp_config.clone()` of None raises at the first side of the row whose
\* discovery_protocols is unset
cdp_raises(dp, cdp, a, z) ==
    cdp = "other" /\ (dp[a] = "None" \/ dp[z] = "None")

\* mutant: the flag is written whether or not a config is there
cdp_section_overwriting(dp, cdp, a, z) ==
    IF cdp \in {"absent", "None", "other"} THEN dp
    ELSE [i \in Interfaces |-> IF i \in {a, z} THEN cdp ELSE dp[i]]

\* only an unset discovery_protocols is written
cdp_section(dp, cdp, a, z) ==
    IF cdp \in {"absent", "None", "other"} THEN dp
    ELSE [i \in Interfaces |->
            IF i \in {a, z} /\ dp[i] = "None" THEN cdp ELSE dp[i]]

\* the Port-channel interface of a side: get_interface(host,
\* f"Port-channel{group}") when the side has a LAG group, else None
LagOf(host, group) ==
    IF group = None THEN None ELSE Some(<<host, PortChannel(group[1])>>)

\* InterfaceLagMemberConfig(group, mode)
InterfaceLagMemberConfig(group, mode) ==
    [group |-> group,
     mode |-> IF mode # "None" THEN mode ELSE default_lag_mode]

\* LAG section, member info: a side first, then z side
lag_members(lm, row) ==
    LET lm1 == IF row.a_lag_group # None
               THEN [lm EXCEPT ![ASide(row)] =
                        Some(InterfaceLagMemberConfig(row.a_lag_group[1], row.a_lag_mode))]
               ELSE lm
    IN  IF row.z_lag_group # None
        THEN [lm1 EXCEPT ![ZSide(row)] =
                 Some(InterfaceLagMemberConfig(row.z_lag_group[1], row.z_lag_mode))]
        ELSE lm1

\* mutant: the Port-channels are paired as soon as one side has a LAG group
lag_neighbors_any(nb, row) ==
    LET a_lag == <<row.a_host, PortChannel(IF row.a_lag_group = None THEN 1 ELSE row.a_lag_group[1])>>
        z_lag == <<row.z_host, PortChannel(IF row.z_lag_group = None THEN 1 ELSE row.z_lag_group[1])>>
    IN  IF row.a_lag_group # None \/ row.z_lag_group # None
        THEN [nb EXCEPT ![a_lag] = Some(z_lag), ![z_lag] = Some(a_lag)]
        ELSE nb

\* LAG section, `if all([a_lag, z_lag])`: the two Port-channels become
\* neighbours
lag_neighbors(nb, row) ==
    LET a_lag == LagOf(row.a_host, row.a_lag_group)
        z_lag == LagOf(row.z_host, row.z_lag_group)
    IN  IF a_lag # None /\ z_lag # None
        THEN [nb EXCEPT ![a_lag[1]] = Some(z_lag[1]), ![z_lag[1]] = Some(a_lag[1])]
        ELSE nb

\* one row of load_physical_links: neighbours, CDP section, LAG section;
\* a raise in the CDP section ends the row before the LAG section
PhysicalLinkRow(row) ==
    /\ loading = "physical_links"
    /\ LET ok == ~ cdp_raises(discovery_protocols, row.cdp_enabled, ASide(row), ZSide(row))
       IN
       /\ neighbor' = IF ok
                      THEN lag_neighbors(set_neighbors(neighbor, ASide(row), ZSide(row)), row)
                      ELSE set_neighbors(neighbor, ASide(row), ZSide(row))
       /\ discovery_protocols' =
              cdp_section(discovery_protocols, row.cdp_enabled, ASide(row), ZSide(row))
       /\ lag_member' = IF ok THEN lag_members(lag_member, row) ELSE lag_member
       /\ RowDone("physical_link", row, ok, IF ok THEN "" ELSE "AttributeError")
    /\ UNCHANGED <<l3_port, description, heap, templates, bgp, peer_groups,
                   vlan_definitions, authentications>>

-----------------------------------------------------------------------------
(* load_ospf_templates, load_l3_links, load_l3_ports *)

\* the module constant GLOBAL_VRFS, and its copy local to load_l3_links
GLOBAL_VRFS == {"None", "global"}

\* the template names a workbook uses
TemplateNames == {"T1", "T2"}

\* the result of a section of a row: the routed ports and the OSPF objects
\* afterwards, and whether the section returned or raised
Result(ports, h, ok, err) == [ports |-> ports, heap |-> h, ok |-> ok, err |-> err]

\* `if interface.l3_port is None: interface.l3_port = InterfaceRouteportModel()`
ensure_l3_port(ports, i) ==
    IF ports[i] = None THEN [ports EXCEPT ![i] = Some(InterfaceRouteportModel)]
    ELSE ports

\* mutant: the row's VRF value is written whatever it is
assign_vrf_always(ports, i, vrf) ==
    [ports EXCEPT ![i] = Some([ports[i][1] EXCEPT !.vrf = vrf])]

\* `if vrf not in GLOBAL_VRFS: interface.l3_port.vrf = vrf`
assign_vrf(ports, i, vrf) ==
    IF vrf \notin GLOBAL_VRFS
    THEN [ports EXCEPT ![i] = Some([ports[i][1] EXCEPT !.vrf = vrf])]
    ELSE ports

\* `if interface.l3_port.ipv4 is None: ... = InterfaceIPv4Container()`
ensure_ipv4(ports, i) ==
    IF ports[i][1].ipv4 = None
    THEN [ports EXCEPT ![i] = Some([ports[i][1] EXCEPT !.ipv4 = Some([addresses |-> None])])]
    ELSE ports

\* list(IPv4Network.hosts()): every address of a /31, the address of a
\* /32, otherwise the addresses between network and broadcast address
hosts(network) ==
    IF network.plen = 32 THEN <<network.ip>>
    ELSE IF network.plen = 31 THEN <<network.ip, network.ip + 1>>
    ELSE [k \in 1..(Pow2(32 - network.plen) - 2) |-> network.ip + k]

\* a bare IPv4Interface handed to add_ipv4_address
Bare(ip, plen) ==
    [is_model |-> FALSE, address |-> [ip |-> ip, plen |-> plen], secondary |-> "None"]

\* the interface addresses derived from ipv4_network: usable_ips[0] for
\* the a side, usable_ips[-1] for the z side, with the network's prefixlen
derived_addresses(network) ==
    LET usable_ips == hosts(network) IN
    <<Bare(usable_ips[1], network.plen), Bare(usable_ips[Len(usable_ips)], network.plen)>>

\* port.add_ipv4_address on interface i of ports
add_to(ports, i, arg) ==
    The({ [ports |-> [ports EXCEPT ![i] = Some(r.port)], ok |-> r.ok] :
          r \in {add_ipv4_address(ports[i][1], arg)} })

\* a side, then z side; the z side is not reached when the a side raises
add_both(ports, h, a, z, a_arg, z_arg) ==
    The({ IF ~ ra.ok THEN Result(ra.ports, h, FALSE, "ValidationError")
          ELSE The({ Result(rz.ports, h, rz.ok, IF rz.ok THEN "" ELSE "ValidationError") :
                     rz \in {add_to(ra.ports, z, z_arg)} }) :
          ra \in {add_to(ports, a, a_arg)} })

\* load_l3_links, "Create IPv4 Container if necessary" and "Assign Given
\* addresses"
addressing_section(ports, h, row) ==
    LET a == ASide(row)
        z == ZSide(row)
        both == row.a_ipv4_address # None /\ row.z_ipv4_address # None
        p1 == IF both \/ row.ipv4_network # None
              THEN ensure_ipv4(ensure_ipv4(ports, a), z)
              ELSE ports
    IN  IF both
        THEN add_both(p1, h, a, z,
                      Bare(row.a_ipv4_address[1].ip, row.a_ipv4_address[1].plen),
                      Bare(row.z_ipv4_address[1].ip, row.z_ipv4_address[1].plen))
        ELSE IF row.ipv4_network # None
        THEN LET d == derived_addresses(row.ipv4_network[1]) IN
             add_both(p1, h, a, z, d[1], d[2])
        ELSE Result(p1, h, TRUE, "")

\* mutant: only a process_id without an area is rejected
validate_process_only(values) ==
    ~ (values.process_id # None /\ values.area = None)

\* InterfaceOspfConfig.validate_process_and_area: TRUE when it returns
\* values, FALSE when it raises
validate_process_and_area(values) ==
    ~ \/ (values.process_id # None /\ values.area = None)
      \/ (values.process_id = None /\ values.area # None)

\* BaseNetModel.clone() of the OSPF config object h[ref]: a new object with
\* the same values
clone_ospf(h, ref) == [heap |-> Append(h, h[ref]), ref |-> Len(h) + 1]

\* interface.l3_port.ospf = ref
set_ospf(ports, i, ref) ==
    [ports EXCEPT ![i] = Some([ports[i][1] EXCEPT !.ospf = Some(ref)])]

\* mutant: both interfaces get the same clone of the template
apply_ospf_template_shared(ports, h, ref, a, z) ==
    LET c1 == clone_ospf(h, ref) IN
    Result(set_ospf(set_ospf(ports, a, c1.ref), z, c1.ref), c1.heap, TRUE, "")

\* a_interface.l3_port.ospf = ospf_template.clone();
\* z_interface.l3_port.ospf = ospf_template.clone()
apply_ospf_template(ports, h, ref, a, z) ==
    LET c1 == clone_ospf(h, ref)
        c2 == clone_ospf(c1.heap, ref)
    IN  Result(set_ospf(set_ospf(ports, a, c1.ref), z, c2.ref), c2.heap, TRUE, "")

\* mutant: a name that is not in the registry is passed over
ospf_section_skipping(ports, h, tmpl, row) ==
    IF row.ospf_template = "None" THEN Result(ports, h, TRUE, "")
    ELSE IF tmpl.ospf = None THEN Result(ports, h, TRUE, "")
    ELSE IF tmpl.ospf[1][row.ospf_template] = None THEN Result(ports, h, TRUE, "")
    ELSE apply_ospf_template(ports, h, tmpl.ospf[1][row.ospf_template][1],
                             ASide(row), ZSide(row))

\* `if row.get('ospf_template') is not None`: self.templates['ospf'] raises
\* KeyError without an 'ospf' key; .get(name) of an unknown name is None,
\* and None.clone() raises AttributeError
ospf_section(ports, h, tmpl, row) ==
    IF row.ospf_template = "None" THEN Result(ports, h, TRUE, "")
    ELSE IF tmpl.ospf = None THEN Result(ports, h, FALSE, "KeyError")
    ELSE IF tmpl.ospf[1][row.ospf_template] = None
    THEN Result(ports, h, FALSE, "AttributeError")
    ELSE apply_ospf_template(ports, h, tmpl.ospf[1][row.ospf_template][1],
                             ASide(row), ZSide(row))

\* interface.l3_port.bfd = InterfaceBfdConfig(template=name)
set_bfd(ports, i, name) ==
    [ports EXCEPT ![i] = Some([ports[i][1] EXCEPT !.bfd = name])]

\* `if row.get('bfd_template') is not None`: the lookup
\* self.templates['ospf'] is made here too, then both sides get the config
bfd_section(ports, h, tmpl, row) ==
    IF row.bfd_template = "None" THEN Result(ports, h, TRUE, "")
    ELSE IF tmpl.ospf = None THEN Result(ports, h, FALSE, "KeyError")
    ELSE Result(set_bfd(set_bfd(ports, ASide(row), row.bfd_template),
                        ZSide(row), row.bfd_template), h, TRUE, "")

\* the sections of one row of load_l3_links after the neighbours are
\* written, in program order; a section that raises ends the row
l3_link_sections(ports, h, tmpl, row) ==
    LET a == ASide(row)
        z == ZSide(row)
    IN  The({ IF ~ r4.ok THEN r4 ELSE bfd_section(r4.ports, r4.heap, tmpl, row) :
              r4 \in { IF ~ r3.ok THEN r3 ELSE ospf_section(r3.ports, r3.heap, tmpl, row) :
                       r3 \in { addressing_section(p2, h, row) :
                                p2 \in { assign_vrf(assign_vrf(p1, a, row.a_vrf), z, row.z_vrf) :
                                         p1 \in {ensure_l3_port(ensure_l3_port(ports, a), z)} } } } })

\* one row of load_l3_links
L3LinkRow(row) ==
    /\ loading = "l3_links"
    /\ neighbor' = set_neighbors(neighbor, ASide(row), ZSide(row))
    /\ LET r == l3_link_sections(l3_port, heap, templates, row) IN
       /\ l3_port' = r.ports
       /\ heap' = r.heap
       /\ RowDone("l3_link", row, r.ok, r.err)
    /\ UNCHANGED <<discovery_protocols, lag_member, description, templates,
                   bgp, peer_groups, vlan_definitions, authentications>>

\* one row of load_l3_ports
L3PortRow(row) ==
    /\ loading = "l3_ports"
    /\ LET i == <<row.host, row.interface>>
           p1 == ensure_l3_port(l3_port, i)
           p2 == assign_vrf(p1, i, row.vrf)
           r == IF row.ipv4_address # None
                THEN add_to(p2, i, Bare(row.ipv4_address[1].ip, row.ipv4_address[1].plen))
                ELSE [ports |-> p2, ok |-> TRUE]
       IN
       /\ description' =
              IF description[i] = "None" /\ row.description # "None"
              THEN [description EXCEPT ![i] = row.description]
              ELSE description
       /\ l3_port' = r.ports
       /\ RowDone("l3_port", row, r.ok, IF r.ok THEN "" ELSE "ValidationError")
    /\ UNCHANGED <<neighbor, discovery_protocols, lag_member, heap, templates,
                   bgp, peer_groups, vlan_definitions, authentications>>

-----------------------------------------------------------------------------
(* Loading the link tables: physical_links and l3_links rows over the      *)
(* physical interfaces of the inventory.                                   *)

\* the two ends of a link row: physical interfaces of two different hosts
LinkEnds == {e \in PhysicalInterfaces \X PhysicalInterfaces : e[1][1] # e[2][1]}

OptLagGroups == {None} \cup {Some(g) : g \in LagGroups}

PhysicalRow(e, a_lag, z_lag, a_mode, z_mode, cdp) ==
    [a_host |-> e[1][1], a_interface |-> e[1][2],
     z_host |-> e[2][1], z_interface |-> e[2][2],
     a_lag_group |-> a_lag, z_lag_group |-> z_lag,
     a_lag_mode |-> a_mode, z_lag_mode |-> z_mode,
     cdp_enabled |-> cdp]

\* physical_links rows: any LAG groups on a sheet without a cdp_enabled
\* column, explicit LAG modes, and the values of a cdp_enabled column
PhysicalRows ==
    {PhysicalRow(e, al, zl, "None", "None", "absent") :
        e \in LinkEnds, al \in OptLagGroups, zl \in OptLagGroups}
    \cup
    {PhysicalRow(e, Some(1), Some(1), am, "passive", "absent") :
        e \in LinkEnds, am \in {"None", "passive"}}
    \cup
    {PhysicalRow(e, None, None, "None", "None", cdp) :
        e \in LinkEnds, cdp \in {"None", "True", "False"}}

L3Row(e, a_vrf, z_vrf, a_addr, z_addr, network, ospf, bfd) ==
    [a_host |-> e[1][1], a_interface |-> e[1][2],
     z_host |-> e[2][1], z_interface |-> e[2][2],
     a_vrf |-> a_vrf, z_vrf |-> z_vrf,
     a_ipv4_address |-> a_addr, z_ipv4_address |-> z_addr,
     ipv4_network |-> network,
     ospf_template |-> ospf, bfd_template |-> bfd]

\* l3_links rows that name the two ends only
L3PlainRows ==
    {L3Row(e, "None", "None", None, None, None, "None", "None") : e \in LinkEnds}

NextLinks ==
    \/ BeginLoad("physical_links")
    \/ BeginLoad("l3_links")
    \/ EndLoad
    \/ rows < MaxRows /\ \E row \in PhysicalRows : PhysicalLinkRow(row)
    \/ rows < MaxRows /\ \E row \in L3PlainRows : L3LinkRow(row)

SpecLinks == Init /\ [][NextLinks]_vars

-----------------------------------------------------------------------------
(* Loading VRFs: l3_links and l3_ports rows with every kind of VRF value   *)

VrfValues == {"None", "global", "red", "blue"}

\* l3_links rows that place the two sides in VRFs
L3VrfRows ==
    {L3Row(e, av, zv, None, None, None, "None", "None") :
        e \in LinkEnds, av \in VrfValues, zv \in VrfValues}

\* an IPv4Interface / IPv4Network cell
Cidr(a, b, c, d, plen) == [ip |-> IP(a, b, c, d), plen |-> plen]

L3PortRowOf(i, descr, vrf, addr) ==
    [host |-> i[1], interface |-> i[2], description |-> descr, vrf |-> vrf,
     ipv4_address |-> addr]

\* l3_ports rows
L3PortRows ==
    {L3PortRowOf(i, descr, vrf, addr) :
        i \in PhysicalInterfaces, descr \in {"None", "uplink"}, vrf \in VrfValues,
        addr \in {None, Some(Cidr(10, 0, 2, 1, 24))}}

NextVrf ==
    \/ BeginLoad("l3_links")
    \/ BeginLoad("l3_ports")
    \/ EndLoad
    \/ rows < MaxRows /\ \E row \in L3VrfRows : L3LinkRow(row)
    \/ rows < MaxRows /\ \E row \in L3PortRows : L3PortRow(row)

SpecVrf == Init /\ [][NextVrf]_vars

-----------------------------------------------------------------------------
(* Loading addresses: l3_links rows with explicit addresses or a network,  *)
(* l3_ports rows with an address.                                          *)

\* the addressing cells of an l3_links row:
\* <<a_ipv4_address, z_ipv4_address, ipv4_network>>
AddressCells ==
    { <<None, None, None>>,
      <<Some(Cidr(10, 0, 0, 1, 30)), Some(Cidr(10, 0, 0, 2, 30)), None>>,
      <<Some(Cidr(10, 0, 0, 5, 30)), None, Some(Cidr(10, 0, 0, 4, 30))>> }
    \cup
    { <<None, None, Some(n)>> :
        n \in {Cidr(10, 0, 0, 0, 30), Cidr(10, 0, 0, 16, 29), Cidr(10, 0, 1, 0, 24),
               Cidr(10, 0, 0, 8, 31), Cidr(10, 0, 0, 9, 32)} }

L3AddressRows ==
    {L3Row(e, "None", "None", c[1], c[2], c[3], "None", "None") :
        e \in LinkEnds, c \in AddressCells}

L3PortAddressRows ==
    {L3PortRowOf(i, "None", "None", Some(addr)) :
        i \in PhysicalInterfaces,
        addr \in {Cidr(10, 0, 2, 1, 24), Cidr(10, 0, 0, 1, 30)}}

NextL3Addr ==
    \/ BeginLoad("l3_links")
    \/ BeginLoad("l3_ports")
    \/ EndLoad
    \/ rows < MaxRows /\ \E row \in L3AddressRows : L3LinkRow(row)
    \/ rows < MaxRows /\ \E row \in L3PortAddressRows : L3PortRow(row)

SpecL3Addr == Init /\ [][NextL3Addr]_vars

-----------------------------------------------------------------------------
(* Loading OSPF templates and applying them: templates_ospf rows, l3_links *)
(* rows that name templates, and a client editing an attached config       *)

\* row_to_model(row, InterfaceOspfConfig): the cells that are fields of the
\* model and are not None (template_name is not a field)
row_to_ospf_values(row) ==
    [process_id |-> row.process_id, area |-> row.area, cost |-> row.cost]

\* self.templates['ospf'][name] = config
store_template(tmpl, name, ref) ==
    [tmpl EXCEPT !.ospf = Some([tmpl.ospf[1] EXCEPT ![name] = Some(ref)])]

\* load_ospf_templates up to its loop: `if 'ospf' not in
\* self.templates.keys(): self.templates['ospf'] = {}`
BeginLoadOspfTemplates ==
    /\ loading = "idle"
    /\ loading' = "ospf_templates"
    /\ templates' = IF templates.ospf = None
                    THEN [templates EXCEPT !.ospf = Some([n \in TemplateNames |-> None])]
                    ELSE templates
    /\ last' = [op |-> "begin", ok |-> TRUE, err |-> "", row |-> <<>>]
    /\ UNCHANGED <<neighbor, discovery_protocols, lag_member, l3_port,
                   description, heap, bgp, peer_groups, vlan_definitions,
                   authentications, rows, linked>>

\* one row of load_ospf_templates: the config is constructed (and
\* validated), then stored under the row's template_name
OspfTemplateRow(row) ==
    /\ loading = "ospf_templates"
    /\ LET values == row_to_ospf_values(row)
           ok == validate_process_and_area(values)
       IN
       /\ heap' = IF ok THEN Append(heap, values) ELSE heap
       /\ templates' = IF ok
                       THEN store_template(templates, row.template_name, Len(heap) + 1)
                       ELSE templates
       /\ RowDone("ospf_template", row, ok, IF ok THEN "" ELSE "ValidationError")
    /\ UNCHANGED <<neighbor, discovery_protocols, lag_member, l3_port,
                   description, bgp, peer_groups, vlan_definitions,
                   authentications>>

\* a client sets the cost of the OSPF config attached to interface i
EditOspfCost(i, cost) ==
    /\ loading = "idle"
    /\ l3_port[i] # None
    /\ l3_port[i][1].ospf # None
    /\ heap[l3_port[i][1].ospf[1]].cost # cost
    /\ heap' = [heap EXCEPT ![l3_port[i][1].ospf[1]].cost = cost]
    /\ rows' = rows + 1
    /\ last' = [op |-> "edit_ospf", ok |-> TRUE, err |-> "",
                row |-> [interface |-> i, cost |-> cost]]
    /\ UNCHANGED <<neighbor, discovery_protocols, lag_member, l3_port,
                   description, templates, bgp, peer_groups, vlan_definitions,
                   authentications, loading, linked>>

OspfTemplateRows ==
    [template_name : TemplateNames, process_id : {None, Some(1)},
     area : {None, Some(0)}, cost : {Some(10)}]

\* l3_links rows that name an OSPF template, and rows that name a BFD
\* template with or without an OSPF template
L3TemplateRows ==
    {L3Row(e, "None", "None", None, None, None, ospf, "None") :
        e \in LinkEnds, ospf \in TemplateNames}
    \cup
    {L3Row(<<<<"R1", "Gi0/0">>, <<"R2", "Gi0/0">>>>, "None", "None", None, None, None,
           ospf, "B1") : ospf \in {"None", "T1"}}

NextOspf ==
    \/ BeginLoadOspfTemplates
    \/ BeginLoad("l3_links")
    \/ EndLoad
    \/ rows < MaxOspfRows /\ \E row \in OspfTemplateRows : OspfTemplateRow(row)
    \/ rows < MaxOspfRows /\ \E row \in L3TemplateRows : L3LinkRow(row)
    \/ rows < MaxOspfRows /\ \E i \in PhysicalInterfaces : EditOspfCost(i, Some(20))

SpecOspf == Init /\ [][NextOspf]_vars

-----------------------------------------------------------------------------
(* load_bgp_routers, load_bgp_peer_groups, load_bgp_neighbors              *)
(*                                                                         *)
(* bgp[h].level tells how far host.config.routing.bgp exists: "none"       *)
(* (host.config is None), "config" (config.routing is None), "routing"     *)
(* (routing.bgp is None) or "bgp"; process is the RoutingBgpProcess.       *)

\* RoutingBgpProcess(asn=asn)
RoutingBgpProcess(asn) == [asn |-> asn, neighbors |-> None, peer_groups |-> None]

\* mutant: every row assigns a new process with the row's asn
bgp_router_row_overwriting(b, row) ==
    [b EXCEPT ![row.host] = [level |-> "bgp", process |-> Some(RoutingBgpProcess(row.asn))]]

\* one row of load_bgp_routers on the host's entry: config, routing and
\* bgp are created when absent; an existing process is left alone
bgp_router_row(b, row) ==
    IF b[row.host].level = "bgp" THEN b
    ELSE [b EXCEPT ![row.host] = [level |-> "bgp", process |-> Some(RoutingBgpProcess(row.asn))]]

\* mutant: the matching entries in reverse table order
Matching_reversed(pgs, name) ==
    LET hits == {k \in 1..Len(pgs) : pgs[k].name = name}
        Rank(k) == Cardinality({j \in hits : j >= k})
    IN  [n \in 1..Cardinality(hits) |-> pgs[CHOOSE k \in hits : Rank(k) = n]]

\* list(filter(lambda x: x.name == name, peer_groups)): the entries of the
\* peer-group table with that name, in table order
Matching(pgs, name) ==
    LET hits == {k \in 1..Len(pgs) : pgs[k].name = name}
        Rank(k) == Cardinality({j \in hits : j <= k})
    IN  [n \in 1..Cardinality(hits) |-> pgs[CHOOSE k \in hits : Rank(k) = n]]

\* BgpNeighbor(**row): the cells that are fields of the model
BgpNeighbor(row) == [name |-> row.name, peer_group |-> row.peer_group]

\* mutant: a neighbour row creates the BGP process it does not find
bgp_neighbor_row_creating(b, pgs, row) ==
    LET b1 == bgp_router_row(b, [host |-> row.host, asn |-> 65000])
        proc == b1[row.host].process[1]
    IN  [bgp |-> [b1 EXCEPT ![row.host].process =
                     Some([proc EXCEPT !.neighbors =
                             Some(Append(IF proc.neighbors = None THEN <<>> ELSE proc.neighbors[1],
                                         BgpNeighbor(row)))])],
         ok |-> TRUE, err |-> ""]

\* one row of load_bgp_neighbors on the host's entry: the bgp entries
\* afterwards and whether the row returned or raised
bgp_neighbor_row(b, pgs, row) ==
    IF b[row.host].level # "bgp"
    THEN \* host.config.routing.bgp.neighbors: attribute of None
         [bgp |-> b, ok |-> FALSE, err |-> "AttributeError"]
    ELSE
    LET proc == b[row.host].process[1]
        p1 == IF proc.neighbors = None THEN [proc EXCEPT !.neighbors = Some(<<>>)] ELSE proc
        found == Matching(pgs, row.peer_group)
        p2 == IF p1.peer_groups = None THEN [p1 EXCEPT !.peer_groups = Some(<<>>)] ELSE p1
        p3 == [p2 EXCEPT !.peer_groups = Some(Append(p2.peer_groups[1], found[1]))]
        p4 == IF row.peer_group # "None" THEN p3 ELSE p1
        p5 == [p4 EXCEPT !.neighbors = Some(Append(p4.neighbors[1], BgpNeighbor(row)))]
    IN  IF row.peer_group # "None" /\ Len(found) = 0
        THEN \* list(...)[0] of an empty list
             [bgp |-> [b EXCEPT ![row.host].process = Some(p1)],
              ok |-> FALSE, err |-> "IndexError"]
        ELSE [bgp |-> [b EXCEPT ![row.host].process = Some(p5)], ok |-> TRUE, err |-> ""]

\* one row of load_bgp_routers
BgpRouterRow(row) ==
    /\ loading = "bgp_routers"
    /\ bgp' = bgp_router_row(bgp, row)
    /\ RowDone("bgp_router", row, TRUE, "")
    /\ UNCHANGED <<neighbor, discovery_protocols, lag_member, l3_port,
                   description, heap, templates, peer_groups,
                   vlan_definitions, authentications>>

\* load_bgp_neighbors up to its loop: peer_groups =
\* self.load_bgp_peer_groups(), the rows of the bgp_peer_groups table
BeginLoadBgpNeighbors(table) ==
    /\ loading = "idle"
    /\ loading' = "bgp_neighbors"
    /\ peer_groups' = table
    /\ last' = [op |-> "begin", ok |-> TRUE, err |-> "", row |-> <<>>]
    /\ UNCHANGED <<neighbor, discovery_protocols, lag_member, l3_port,
                   description, heap, templates, bgp, vlan_definitions,
                   authentications, rows, linked>>

\* one row of load_bgp_neighbors
BgpNeighborRow(row) ==
    /\ loading = "bgp_neighbors"
    /\ LET r == bgp_neighbor_row(bgp, peer_groups, row) IN
       /\ bgp' = r.bgp
       /\ RowDone("bgp_neighbor", row, r.ok, r.err)
    /\ UNCHANGED <<neighbor, discovery_protocols, lag_member, l3_port,
                   description, heap, templates, peer_groups,
                   vlan_definitions, authentications>>

\* hosts whose config, routing config or BGP process is still missing
InitBgp ==
    /\ neighbor = [i \in Interfaces |-> None]
    /\ discovery_protocols = [i \in Interfaces |-> "None"]
    /\ lag_member = [i \in Interfaces |-> None]
    /\ l3_port = [i \in Interfaces |-> None]
    /\ description = [i \in Interfaces |-> "None"]
    /\ heap = <<>>
    /\ templates = [ospf |-> None]
    /\ bgp \in [Hosts -> [level : {"none", "config", "routing"}, process : {None}]]
    /\ peer_groups = <<>>
    /\ vlan_definitions = None
    /\ authentications = <<>>
    /\ loading = "idle"
    /\ rows = 0
    /\ linked = {}
    /\ last = NoCall

PeerGroupNames == {"RR-CLIENT", "EDGE"}

\* the rows of a bgp_peer_groups table
PeerGroupRows ==
    {[name |-> "RR-CLIENT", remote_as |-> 65001],
     [name |-> "RR-CLIENT", remote_as |-> 65002],
     [name |-> "EDGE", remote_as |-> 65001]}

\* bgp_peer_groups tables of up to two rows; names may repeat
PeerGroupTables ==
    {<<>>} \cup {<<x>> : x \in PeerGroupRows}
    \cup {<<x, y>> : x \in PeerGroupRows, y \in PeerGroupRows}

BgpRouterRows == [host : Hosts, asn : {65001, 65002}]

BgpNeighborRows == [host : Hosts, name : {"n1", "n2"}, peer_group : {"None"} \cup PeerGroupNames]

NextBgp ==
    \/ BeginLoad("bgp_routers")
    \/ \E table \in PeerGroupTables : BeginLoadBgpNeighbors(table)
    \/ EndLoad
    \/ rows < MaxBgpRows /\ \E row \in BgpRouterRows : BgpRouterRow(row)
    \/ rows < MaxBgpRows /\ \E row \in BgpNeighborRows : BgpNeighborRow(row)

SpecBgp == InitBgp /\ [][NextBgp]_vars

-----------------------------------------------------------------------------
(* load_vlan_definitions                                                   *)
(*                                                                         *)
(* A use cell is "None" (empty), "0", "1" or a text; a table is the        *)
(* sequence of rows of the vlan_definitions sheet.                         *)

\* bool(x) of a use cell after `df.where(pd.notnull(df), None)`
Truthy(use) == use \notin {"None", "0"}

\* mutant: an empty use cell counts as set (bool(nan) is True)
use_filter_nan(table) ==
    LET F[k \in 0..Len(table)] ==
            IF k = 0 THEN <<>>
            ELSE IF table[k].use # "0" THEN Append(F[k - 1], table[k])
            ELSE F[k - 1]
    IN  F[Len(table)]

\* use_filter: df[df["use"]] after astype(bool), the rows with a truthy use
\* cell in table order
use_filter(table) ==
    LET F[k \in 0..Len(table)] ==
            IF k = 0 THEN <<>>
            ELSE IF Truthy(table[k].use) THEN Append(F[k - 1], table[k])
            ELSE F[k - 1]
    IN  F[Len(table)]

\* df.sort_values("vlan_id"): the rows in ascending vlan_id order (the rows
\* of a table have different vlan_ids)
sort_values(table) ==
    LET Rank(k) == Cardinality({j \in 1..Len(table) : table[j].vlan_id <= table[k].vlan_id})
    IN  [n \in 1..Len(table) |-> table[CHOOSE k \in 1..Len(table) : Rank(k) = n]]

\* VLANModel(**{k: v for k, v in row.items() if k in include_keys ...})
VLANModel(row) == [vlan_id |-> row.vlan_id, name |-> row.name]

\* load_vlan_definitions: the whole call
LoadVlanDefinitions(table) ==
    /\ loading = "idle"
    /\ LET df == sort_values(use_filter(table))
           old == IF vlan_definitions = None THEN <<>> ELSE vlan_definitions[1]
       IN  vlan_definitions' = Some(old \o [k \in 1..Len(df) |-> VLANModel(df[k])])
    /\ rows' = rows + 1
    /\ last' = [op |-> "vlan_definitions", ok |-> TRUE, err |-> "", row |-> table]
    /\ UNCHANGED <<neighbor, discovery_protocols, lag_member, l3_port,
                   description, heap, templates, bgp, peer_groups,
                   authentications, loading, linked>>

VlanIds == {10, 20}

VlanRows == [use : {"None", "0", "1"}, vlan_id : VlanIds, name : {"users"}]

\* vlan_definitions sheets of up to two rows with different vlan_ids
VlanTables ==
    {<<>>} \cup {<<x>> : x \in VlanRows}
    \cup {t \in VlanRows \X VlanRows : t[1].vlan_id # t[2].vlan_id}

NextVlan == rows < MaxRows /\ \E table \in VlanTables : LoadVlanDefinitions(table)

SpecVlan == Init /\ [][NextVlan]_vars

-----------------------------------------------------------------------------
(* InterfaceOspfAuthentication                                             *)
(*                                                                         *)
(* method is "None" (absent) or one of the literals 'message-digest',      *)
(* 'key-chain', 'null'; keychain and key are Optional.                     *)

\* mutant: the check of key against method is left out
validate_keychain_present_no_key(values) ==
    ~ \/ (values.method = "key-chain" /\ values.keychain = None)
      \/ (values.method # "key-chain" /\ values.keychain # None)

\* InterfaceOspfAuthentication.validate_keychain_present: TRUE when it
\* returns values, FALSE when it raises
validate_keychain_present(values) ==
    ~ \/ (values.method = "key-chain" /\ values.keychain = None)
      \/ (values.method # "key-chain" /\ values.keychain # None)
      \/ (values.method \notin {"None", "message-digest"} /\ values.key # None)

\* InterfaceOspfAuthentication(method=..., keychain=..., key=...)
ConstructOspfAuthentication(values) ==
    /\ loading = "idle"
    /\ LET ok == validate_keychain_present(values) IN
       /\ authentications' = IF ok THEN Append(authentications, values)
                             ELSE authentications
       /\ last' = [op |-> "ospf_authentication", ok |-> ok,
                   err |-> IF ok THEN "" ELSE "ValidationError", row |-> values]
    /\ rows' = rows + 1
    /\ UNCHANGED <<neighbor, discovery_protocols, lag_member, l3_port,
                   description, heap, templates, bgp, peer_groups,
                   vlan_definitions, loading, linked>>

AuthValues ==
    [method : {"None", "message-digest", "key-chain", "null"},
     keychain : {None, Some("KC1")}, key : {None, Some("secret")}]

NextAuth == rows < MaxRows /\ \E values \in AuthValues : ConstructOspfAuthentication(values)

SpecAuth == Init /\ [][NextAuth]_vars

-----------------------------------------------------------------------------
(* Tables with rows that raise: a physical_links sheet with a cdp_enabled  *)
(* cell that is no bool, l3_links and l3_ports rows that give an interface *)
(* a second address, bgp_neighbors rows of hosts without BGP process or    *)
(* with an unknown peer-group.                                             *)

PhysicalAbortRows ==
    {PhysicalRow(e, Some(1), Some(1), "None", "None", cdp) :
        e \in LinkEnds, cdp \in {"True", "other"}}

L3AbortRows ==
    {L3Row(e, "None", "None", c[1], c[2], c[3], "None", "None") :
        e \in LinkEnds,
        c \in { <<Some(Cidr(10, 0, 0, 1, 30)), Some(Cidr(10, 0, 0, 2, 30)), None>>,
                <<None, None, Some(Cidr(10, 0, 0, 16, 29))>> }}

AbortPeerGroupTables == {<<>>, <<[name |-> "RR-CLIENT", remote_as |-> 65001]>>}

NextAbort ==
    \/ \E op \in {"physical_links", "l3_links", "l3_ports", "bgp_routers"} : BeginLoad(op)
    \/ \E table \in AbortPeerGroupTables : BeginLoadBgpNeighbors(table)
    \/ EndLoad
    \/ rows < MaxRows /\ \E row \in PhysicalAbortRows : PhysicalLinkRow(row)
    \/ rows < MaxRows /\ \E row \in L3AbortRows : L3LinkRow(row)
    \/ rows < MaxRows /\ \E row \in L3PortAddressRows : L3PortRow(row)
    \/ rows < MaxRows /\ \E row \in BgpRouterRows : BgpRouterRow(row)
    \/ rows < MaxRows /\ \E row \in BgpNeighborRows : BgpNeighborRow(row)

SpecAbort == Init /\ [][NextAbort]_vars

-----------------------------------------------------------------------------
(* Loading discovery-protocol flags: physical_links rows without a         *)
(* cdp_enabled column and with each kind of cdp_enabled cell.              *)

PhysicalCdpRows ==
    {PhysicalRow(e, None, None, "None", "None", cdp) :
        e \in LinkEnds, cdp \in {"absent", "None", "True", "False", "other"}}

NextCdp ==
    \/ BeginLoad("physical_links")
    \/ EndLoad
    \/ rows < MaxRows /\ \E row \in PhysicalCdpRows : PhysicalLinkRow(row)

SpecCdp == Init /\ [][NextCdp]_vars

-----------------------------------------------------------------------------
(* Properties of the IPv4 container *)

\* two different members of the list of which one lies in the other's network
HasOverlap(list) ==
    \E k, o \in 1..Len(list) :
        k # o /\ InNetwork(list[k].address, list[o].address)

\* the members whose secondary flag is false or null
Primaries(list) == {k \in 1..Len(list) : list[k].secondary \in {"False", "None"}}

\* arg conflicts with the list: it overlaps a member or would be a second
\* primary
Conflicts(list, arg) ==
    LET flag == IF arg.is_model THEN arg.secondary ELSE "None"
        new == Append(list, InterfaceIPv4Address(arg.address, flag))
    IN  HasOverlap(new) \/ Cardinality(Primaries(new)) > 1

\* C1: in every reachable state of a routed port fed only through
\* add_ipv4_address, the container holds no two addresses of which one lies
\* inside the other's network and at most one primary address.
C1_ContainerAlwaysValid ==
    \A i \in Interfaces :
        l3_port[i] # None =>
            LET list == AddressesOf(l3_port[i][1]) IN
            /\ ~ HasOverlap(list)
            /\ Cardinality(Primaries(list)) <= 1

\* C2: a call of add_ipv4_address with an address that overlaps a member
\* or would be a second primary fails and leaves the port's address
\* sequence exactly as it was before the call.
C2_ConflictFailsAndKeepsContainer ==
    [][ \A arg \in AddrArgs :
          ( /\ AddIpv4Address(AddrPort, arg)
            /\ Conflicts(AddressesOf(l3_port[AddrPort][1]), arg) )
          => /\ ~ last'.ok
             /\ AddressesOf(l3_port'[AddrPort][1]) = AddressesOf(l3_port[AddrPort][1])
      ]_vars

-----------------------------------------------------------------------------
(* Properties of the link tables *)

\* the last row processed was a link row
LastIsLink == last.op \in {"physical_link", "l3_link"}

\* C3 as claimed: after any sequence of link rows, every row that was
\* processed still has its a side pointing at its z side and its z side at
\* its a side, and no neighbour relation is one-sided.
C3_EveryProcessedRowSymmetric ==
    /\ \A e \in linked :
          neighbor[e[1]] = Some(e[2]) /\ neighbor[e[2]] = Some(e[1])
    /\ \A i \in Interfaces :
          neighbor[i] # None => neighbor[neighbor[i][1]] = Some(i)

\* C3, amended: right after a link row has been processed successfully, the
\* a side of that row points at its z side and the z side at its a side.
C3_LastRowSymmetric ==
    (LastIsLink /\ last.ok) =>
        /\ neighbor[ASide(last.row)] = Some(ZSide(last.row))
        /\ neighbor[ZSide(last.row)] = Some(ASide(last.row))

\* C3 witness: a link row was processed on an interface that an earlier row
\* had linked to another peer.
C3_Witness ==
    /\ LastIsLink /\ last.ok
    /\ \E e \in linked : e[1] = ASide(last.row) /\ e[2] # ZSide(last.row)
    /\ neighbor[ASide(last.row)] = Some(ZSide(last.row))

\* C8: a physical-link row writes a neighbour on Port-channel interfaces
\* exactly when both sides give a LAG group; then Port-channel{a group} of
\* the a host and Port-channel{z group} of the z host point at each other;
\* each side's physical interface gets LAG-member info with its own group.
C8_LagNeighborsIffBoth ==
    [][ last'.op = "physical_link" =>
          LET row == last'.row
              both == row.a_lag_group # None /\ row.z_lag_group # None
          IN
          /\ both =>
                LET a_lag == <<row.a_host, PortChannel(row.a_lag_group[1])>>
                    z_lag == <<row.z_host, PortChannel(row.z_lag_group[1])>>
                IN  /\ neighbor'[a_lag] = Some(z_lag)
                    /\ neighbor'[z_lag] = Some(a_lag)
                    /\ \A p \in PortChannelInterfaces \ {a_lag, z_lag} :
                          neighbor'[p] = neighbor[p]
          /\ ~ both =>
                \A p \in PortChannelInterfaces : neighbor'[p] = neighbor[p]
          /\ row.a_lag_group # None =>
                /\ lag_member'[ASide(row)] # None
                /\ lag_member'[ASide(row)][1].group = row.a_lag_group[1]
          /\ row.z_lag_group # None =>
                /\ lag_member'[ZSide(row)] # None
                /\ lag_member'[ZSide(row)][1].group = row.z_lag_group[1]
      ]_vars

\* C8 witness: a row with different LAG groups on its two sides was
\* processed and the two Port-channels point at each other.
C8_Witness ==
    /\ last.op = "physical_link"
    /\ last.row.a_lag_group = Some(1)
    /\ last.row.z_lag_group = Some(2)
    /\ neighbor[<<last.row.a_host, "Port-channel1">>] = Some(<<last.row.z_host, "Port-channel2">>)
    /\ neighbor[<<last.row.z_host, "Port-channel2">>] = Some(<<last.row.a_host, "Port-channel1">>)
    /\ lag_member[ASide(last.row)] # None
    /\ lag_member[ASide(last.row)][1].group = 1

-----------------------------------------------------------------------------
(* Properties of VRF placement *)

\* the VRF of an interface's routed port ("None" without a routed port)
VrfOf(ports, i) == IF ports[i] = None THEN "None" ELSE ports[i][1].vrf

\* C4 as claimed: after an L3-link or L3-port row, whatever the port held
\* before, each side's routed port has a VRF exactly when the row's VRF
\* value for that side is neither null nor "global".
C4_VrfSetIffRowValue ==
    /\ last.op = "l3_link" =>
          /\ (VrfOf(l3_port, ASide(last.row)) # "None") <=> (last.row.a_vrf \notin {"None", "global"})
          /\ (VrfOf(l3_port, ZSide(last.row)) # "None") <=> (last.row.z_vrf \notin {"None", "global"})
    /\ last.op = "l3_port" =>
          (VrfOf(l3_port, <<last.row.host, last.row.interface>>) # "None")
              <=> (last.row.vrf \notin {"None", "global"})

\* what a row's VRF value leaves on a port that held `before`
VrfAfter(before, value) == IF value \in {"None", "global"} THEN before ELSE value

\* C4, amended: after an L3-link or L3-port row, each side's routed port
\* has the row's VRF value when that value is neither null nor "global",
\* and otherwise the VRF (set or unset) it had before the row.
C4_VrfWrittenIffRowValue ==
    [][ /\ last'.op = "l3_link" =>
              LET row == last'.row IN
              /\ l3_port'[ASide(row)] # None
              /\ l3_port'[ZSide(row)] # None
              /\ VrfOf(l3_port', ASide(row)) = VrfAfter(VrfOf(l3_port, ASide(row)), row.a_vrf)
              /\ VrfOf(l3_port', ZSide(row)) = VrfAfter(VrfOf(l3_port, ZSide(row)), row.z_vrf)
        /\ last'.op = "l3_port" =>
              LET row == last'.row
                  i == <<row.host, row.interface>>
              IN  /\ l3_port'[i] # None
                  /\ VrfOf(l3_port', i) = VrfAfter(VrfOf(l3_port, i), row.vrf)
      ]_vars

\* C4 witness: a row with a null VRF value was processed on a port that an
\* earlier row had put in a VRF, after a row whose value was "global" for
\* the other side: the port is still in its VRF.
C4_Witness ==
    /\ last.op = "l3_link"
    /\ last.row.a_vrf = "None"
    /\ last.row.z_vrf = "global"
    /\ VrfOf(l3_port, ASide(last.row)) = "red"
    /\ VrfOf(l3_port, ZSide(last.row)) = "None"

-----------------------------------------------------------------------------
(* Properties of address derivation *)

\* the row takes its addresses from ipv4_network
DerivesFromNetwork(row) ==
    /\ row.ipv4_network # None
    /\ ~ (row.a_ipv4_address # None /\ row.z_ipv4_address # None)

\* first and last usable host address of a network: the addresses next to
\* the network and the broadcast address; both addresses of a /31; the one
\* address of a /32
FirstUsable(n) == IF n.plen >= 31 THEN n.ip ELSE n.ip + 1
LastUsable(n) ==
    IF n.plen = 32 THEN n.ip
    ELSE IF n.plen = 31 THEN n.ip + 1
    ELSE BroadcastAddress(n.ip, n.plen) - 1

\* the number of usable host addresses of a network
UsableCount(n) ==
    IF n.plen = 32 THEN 1 ELSE IF n.plen = 31 THEN 2 ELSE Pow2(32 - n.plen) - 2

\* the interface holds `ip/plen` as the address added last
Received(ports, i, ip, plen) ==
    LET list == AddressesOf(ports[i][1]) IN
    /\ list # <<>>
    /\ list[Len(list)].address = [ip |-> ip, plen |-> plen]

\* C6: for an L3-link row that takes its addresses from a network CIDR, the
\* a side receives the first usable host address and the z side the last
\* usable host address, both with the network's prefix length, and the two
\* addresses differ.
C6_FirstAndLastUsable ==
    (last.op = "l3_link" /\ DerivesFromNetwork(last.row)) =>
        LET n == last.row.ipv4_network[1] IN
        /\ Received(l3_port, ASide(last.row), FirstUsable(n), n.plen)
        /\ Received(l3_port, ZSide(last.row), LastUsable(n), n.plen)
        /\ FirstUsable(n) # LastUsable(n)

\* C7: an L3-link row whose network has fewer than 2 usable host addresses
\* fails and assigns no address to either interface of the row.
C7_TooSmallNetworkFails ==
    [][ ( /\ last'.op = "l3_link"
          /\ DerivesFromNetwork(last'.row)
          /\ UsableCount(last'.row.ipv4_network[1]) < 2 )
        => /\ ~ last'.ok
           /\ \A i \in {ASide(last'.row), ZSide(last'.row)} :
                 AddressesOf(l3_port'[i][1]) =
                     IF l3_port[i] = None THEN <<>> ELSE AddressesOf(l3_port[i][1])
      ]_vars

-----------------------------------------------------------------------------
(* Properties of OSPF templates *)

\* the values of the OSPF config attached to an interface (None without)
OspfOf(ports, h, i) ==
    IF ports[i] = None THEN None
    ELSE IF ports[i][1].ospf = None THEN None
    ELSE Some(h[ports[i][1].ospf[1]])

\* the values of the prototype stored under a template name (None without)
PrototypeOf(tmpl, h, name) ==
    IF tmpl.ospf = None THEN None
    ELSE IF tmpl.ospf[1][name] = None THEN None
    ELSE Some(h[tmpl.ospf[1][name][1]])

\* C5: changing a field of the OSPF config attached to one interface
\* changes neither the config attached to any other interface (the other
\* side of the same row, or an interface set from the template by another
\* row) nor any prototype stored in the registry.
C5_CopyIsolated ==
    [][ last'.op = "edit_ospf" =>
          /\ \A j \in Interfaces \ {last'.row.interface} :
                OspfOf(l3_port', heap', j) = OspfOf(l3_port, heap, j)
          /\ \A name \in TemplateNames :
                PrototypeOf(templates', heap', name) = PrototypeOf(templates, heap, name)
      ]_vars

\* C5 witness: the config of one interface was edited while the other side
\* of its row and an interface of another row hold a config from the same
\* template; they and the prototype keep the template's cost.
C5_Witness ==
    /\ last.op = "edit_ospf"
    /\ OspfOf(l3_port, heap, last.row.interface) = Some([process_id |-> Some(1), area |-> Some(0), cost |-> Some(20)])
    /\ PrototypeOf(templates, heap, "T1") = Some([process_id |-> Some(1), area |-> Some(0), cost |-> Some(10)])
    /\ Cardinality({j \in Interfaces \ {last.row.interface} :
                       OspfOf(l3_port, heap, j) = PrototypeOf(templates, heap, "T1")}) = 2

\* process_id and area are both set or both absent
Coupled(values) == (values.process_id = None) <=> (values.area = None)

\* C9: every OSPF config stored in the registry or attached to an interface
\* has process_id and area both set or both absent; a template row that
\* sets exactly one of them fails and stores no registry entry.
C9_ProcessAndAreaCoupled ==
    [][ /\ \A name \in TemplateNames :
              PrototypeOf(templates', heap', name) # None
                  => Coupled(PrototypeOf(templates', heap', name)[1])
        /\ \A i \in Interfaces :
              OspfOf(l3_port', heap', i) # None => Coupled(OspfOf(l3_port', heap', i)[1])
        /\ (last'.op = "ospf_template" /\ ~ Coupled(last'.row))
              => /\ ~ last'.ok
                 /\ templates' = templates
      ]_vars

\* C9 witness: a template row with a process_id and no area was rejected
\* and left the registry without an entry for its name, while another
\* template is stored and attached to an interface.
C9_Witness ==
    /\ last.op = "ospf_template"
    /\ ~ last.ok
    /\ last.row.process_id # None
    /\ last.row.area = None
    /\ PrototypeOf(templates, heap, last.row.template_name) = None
    /\ \E name \in TemplateNames : PrototypeOf(templates, heap, name) # None
    /\ \E i \in Interfaces : OspfOf(l3_port, heap, i) # None

-----------------------------------------------------------------------------
(* Properties of the BGP tables *)

\* C10: a BGP-neighbor row whose host has no BGP process (host config,
\* routing config or process absent) fails, creates no BGP process and
\* appends no neighbour and no peer-group to any host.
C10_NeighborNeedsBgpProcess ==
    [][ (last'.op = "bgp_neighbor" /\ bgp[last'.row.host].process = None)
        => /\ ~ last'.ok
           /\ bgp' = bgp
      ]_vars

\* C10 witness: a neighbour row that names a peer-group of the table failed
\* on a host without BGP process, in a call that had already appended a
\* neighbour to another host.
C10_Witness ==
    /\ last.op = "bgp_neighbor"
    /\ ~ last.ok
    /\ last.row.peer_group = "RR-CLIENT"
    /\ Len(Matching(peer_groups, "RR-CLIENT")) > 0
    /\ bgp[last.row.host].process = None
    /\ \E h \in Hosts :
          /\ bgp[h].process # None
          /\ bgp[h].process[1].neighbors # None
          /\ Len(bgp[h].process[1].neighbors[1]) = 1

\* the peer-groups attached to a host (empty without a process or a list)
AttachedPeerGroups(b, h) ==
    IF b[h].process = None THEN <<>>
    ELSE IF b[h].process[1].peer_groups = None THEN <<>>
    ELSE b[h].process[1].peer_groups[1]

\* C11: after any sequence of BGP-neighbor rows, each host's list of
\* attached peer-groups holds each peer-group at most once.
C11_PeerGroupAttachedOnce ==
    \A h \in Hosts :
        \A k, o \in 1..Len(AttachedPeerGroups(bgp, h)) :
            AttachedPeerGroups(bgp, h)[k] = AttachedPeerGroups(bgp, h)[o] => k = o

-----------------------------------------------------------------------------
(* Properties of the VLAN table *)

\* the VLANs of the list, and the VLANs of the rows of a table whose use
\* flag is truthy
ListOf(v) == IF v = None THEN <<>> ELSE v[1]
TruthyVlans(table) ==
    {VLANModel(table[k]) : k \in {j \in 1..Len(table) : Truthy(table[j].use)}}
Ascending(list) ==
    \A k \in 1..Len(list) : \A o \in 1..Len(list) :
        k < o => list[k].vlan_id <= list[o].vlan_id

\* C12 as claimed: after any sequence of load_vlan_definitions calls the
\* list holds VLANs of rows with a truthy use flag only, and the whole list
\* is in ascending vlan_id order.
C12_TruthyOnlyAndAscending ==
    [][ last'.op = "vlan_definitions" =>
          /\ \A k \in 1..Len(ListOf(vlan_definitions')) :
                \/ ListOf(vlan_definitions')[k] \in TruthyVlans(last'.row)
                \/ \E o \in 1..Len(ListOf(vlan_definitions)) :
                      ListOf(vlan_definitions)[o] = ListOf(vlan_definitions')[k]
          /\ Ascending(ListOf(vlan_definitions'))
      ]_vars

\* C12, amended: a load_vlan_definitions call keeps the list it finds and
\* appends to it one VLAN for each row with a truthy use flag and none for
\* any other row, in ascending vlan_id order.
C12_CallAppendsTruthyAscending ==
    [][ last'.op = "vlan_definitions" =>
          LET old == ListOf(vlan_definitions)
              new == ListOf(vlan_definitions')
              added == SubSeq(new, Len(old) + 1, Len(new))
          IN  /\ Len(new) >= Len(old)
              /\ SubSeq(new, 1, Len(old)) = old
              /\ {added[k] : k \in 1..Len(added)} = TruthyVlans(last'.row)
              /\ Len(added) = Cardinality(TruthyVlans(last'.row))
              /\ Ascending(added)
      ]_vars

\* C12 witness: a second call loaded a sheet whose rows are out of order and
\* hold a truthy, a zero or empty use flag: the list holds its one VLAN
\* after the VLANs of the first call.
C12_Witness ==
    /\ last.op = "vlan_definitions"
    /\ Len(last.row) = 2
    /\ last.row[1].vlan_id = 20 /\ last.row[1].use = "None"
    /\ last.row[2].vlan_id = 10 /\ last.row[2].use = "1"
    /\ ListOf(vlan_definitions) =
          <<[vlan_id |-> 10, name |-> "users"], [vlan_id |-> 20, name |-> "users"],
            [vlan_id |-> 10, name |-> "users"]>>

-----------------------------------------------------------------------------
(* Properties of OSPF authentication *)

\* keychain is set exactly when method is key-chain, and key is set only
\* when method is absent or message-digest
AuthCoupled(values) ==
    /\ (values.keychain # None) <=> (values.method = "key-chain")
    /\ (values.key # None) => (values.method \in {"None", "message-digest"})

\* C13: every successfully constructed OSPF authentication config has
\* keychain set exactly when method is key-chain and key set only when
\* method is absent or message-digest; any other combination fails
\* construction and yields no object.
C13_AuthCoupled ==
    [][ last'.op = "ospf_authentication" =>
          /\ \A k \in 1..Len(authentications') : AuthCoupled(authentications'[k])
          /\ ~ AuthCoupled(last'.row) =>
                (~ last'.ok /\ authentications' = authentications)
      ]_vars

\* C13 witness: a config with method 'null' and a key was rejected after a
\* key-chain config with its keychain had been constructed.
C13_Witness ==
    /\ last.op = "ospf_authentication"
    /\ ~ last.ok
    /\ last.row.method = "null"
    /\ last.row.keychain = None
    /\ last.row.key # None
    /\ authentications = <<[method |-> "key-chain", keychain |-> Some("KC1"), key |-> None]>>

-----------------------------------------------------------------------------
(* Properties of a call whose row raises *)

RowOps == {"physical_link", "l3_link", "l3_port", "bgp_router", "bgp_neighbor"}

\* the interfaces and the hosts a row names
TouchedInterfaces(op, row) ==
    IF op \in {"physical_link", "l3_link"} THEN {ASide(row), ZSide(row)}
    ELSE IF op = "l3_port" THEN {<<row.host, row.interface>>}
    ELSE {}
TouchedHosts(op, row) == IF op \in {"bgp_router", "bgp_neighbor"} THEN {row.host} ELSE {}

\* s is an initial segment of t
IsPrefix(s, t) == Len(s) <= Len(t) /\ SubSeq(t, 1, Len(s)) = s

\* nothing that was set on interface i or host h before the step is unset
\* or removed by it
KeptInterface(i) ==
    /\ neighbor[i] # None => neighbor'[i] # None
    /\ discovery_protocols[i] # "None" => discovery_protocols'[i] = discovery_protocols[i]
    /\ lag_member'[i] = lag_member[i]
    /\ l3_port[i] # None =>
          /\ l3_port'[i] # None
          /\ IsPrefix(AddressesOf(l3_port[i][1]), AddressesOf(l3_port'[i][1]))
          /\ l3_port'[i][1].vrf = l3_port[i][1].vrf
KeptHost(h) ==
    bgp[h].process # None =>
        /\ bgp'[h].process # None
        /\ bgp'[h].process[1].asn = bgp[h].process[1].asn
        /\ bgp[h].process[1].neighbors # None =>
              /\ bgp'[h].process[1].neighbors # None
              /\ IsPrefix(bgp[h].process[1].neighbors[1], bgp'[h].process[1].neighbors[1])
        /\ IsPrefix(AttachedPeerGroups(bgp, h), AttachedPeerGroups(bgp', h))

C15_AsnFirstWriteWins ==
    [][ /\ \A h \in Hosts :
              bgp[h].process # None =>
                  /\ bgp'[h].process # None
                  /\ bgp'[h].process[1].asn = bgp[h].process[1].asn
        /\ (last'.op = "bgp_router" /\ bgp[last'.row.host].process # None) =>
              bgp' = bgp
      ]_vars

\* C15 witness: a BGP-router row with another asn was processed for a host
\* whose process already holds a neighbour; the process keeps its asn and
\* its neighbour.
C15_Witness ==
    /\ last.op = "bgp_router"
    /\ last.row.asn = 65002
    /\ bgp[last.row.host].process # None
    /\ bgp[last.row.host].process[1].asn = 65001
    /\ bgp[last.row.host].process[1].neighbors # None
    /\ Len(bgp[last.row.host].process[1].neighbors[1]) = 1

-----------------------------------------------------------------------------
(* Properties of discovery-protocol flags *)

\* C16: a physical-link row with a true or false cdp_enabled flag sets the
\* discovery-protocol config of its interfaces from the flag only where the
\* config is unset; a config that is set is never changed by a later row,
\* and a row with a null or absent flag changes no config.
C16_DiscoveryFirstWriteWins ==
    [][ /\ \A i \in Interfaces :
              discovery_protocols[i] # "None" =>
                  discovery_protocols'[i] = discovery_protocols[i]
        /\ last'.op = "physical_link" =>
              LET row == last'.row IN
              /\ row.cdp_enabled \in {"True", "False"} =>
                    \A i \in Interfaces :
                        discovery_protocols[i] = "None" =>
                            discovery_protocols'[i] =
                                IF i \in {ASide(row), ZSide(row)}
                                THEN row.cdp_enabled ELSE "None"
              /\ row.cdp_enabled \in {"None", "absent"} =>
                    discovery_protocols' = discovery_protocols
      ]_vars

\* C16 witness: a row with flag false was processed on an interface that
\* an earlier row had enabled and on one without config: the first is still
\* enabled, the second is disabled.
C16_Witness ==
    /\ last.op = "physical_link"
    /\ last.ok
    /\ last.row.cdp_enabled = "False"
    /\ discovery_protocols[ASide(last.row)] = "True"
    /\ discovery_protocols[ZSide(last.row)] = "False"

-----------------------------------------------------------------------------
(* Properties of template lookup *)

\* C17: an L3-link row that names an OSPF template which is not in the
\* registry (also when no template was ever loaded) fails and leaves the
\* OSPF config of both its interfaces' routed ports as it was.
C17_UnknownTemplateFails ==
    [][ ( /\ last'.op = "l3_link"
          /\ last'.row.ospf_template # "None"
          /\ PrototypeOf(templates, heap, last'.row.ospf_template) = None )
        => /\ ~ last'.ok
           /\ \A i \in {ASide(last'.row), ZSide(last'.row)} :
                 OspfOf(l3_port', heap', i) = OspfOf(l3_port, heap, i)
      ]_vars

\* C17 witness: with T1 in the registry and attached to the a side by an
\* earlier row, a row naming T2 failed; the a side still holds its config.
C17_Witness ==
    /\ last.op = "l3_link"
    /\ ~ last.ok
    /\ last.row.ospf_template = "T2"
    /\ PrototypeOf(templates, heap, "T1") # None
    /\ PrototypeOf(templates, heap, "T2") = None
    /\ OspfOf(l3_port, heap, ASide(last.row)) = PrototypeOf(templates, heap, "T1")

\* C18: an L3-link row that names a BFD template and no OSPF template
\* succeeds whatever the template registries hold, and both its interfaces'
\* routed ports then have a BFD config that names the template.
C18_BfdNeedsNoRegistry ==
    [][ ( /\ last'.op = "l3_link"
          /\ last'.row.bfd_template # "None"
          /\ last'.row.ospf_template = "None" )
        => /\ last'.ok
           /\ \A i \in {ASide(last'.row), ZSide(last'.row)} :
                 /\ l3_port'[i] # None
                 /\ l3_port'[i][1].bfd = last'.row.bfd_template
      ]_vars

\* the neighbours of a host's BGP process (empty without a process or list)
NeighborsOf(b, h) ==
    IF b[h].process = None THEN <<>>
    ELSE IF b[h].process[1].neighbors = None THEN <<>>
    ELSE b[h].process[1].neighbors[1]

\* the positions of the peer-group table whose entry has the name
PositionsOf(pgs, name) == {k \in 1..Len(pgs) : pgs[k].name = name}

\* C19: a BGP-neighbor row that references peer-group name N on a host with
\* a BGP process attaches the first entry of the peer-group table named N
\* and appends the neighbour; when no entry is named N the row fails and
\* neither a peer-group nor the neighbour is appended to the host.
C19_FirstMatchOrFail ==
    [][ ( /\ last'.op = "bgp_neighbor"
          /\ last'.row.peer_group # "None"
          /\ bgp[last'.row.host].process # None )
        => LET h == last'.row.host
               hits == PositionsOf(peer_groups, last'.row.peer_group)
           IN  /\ hits # {} =>
                     /\ last'.ok
                     /\ AttachedPeerGroups(bgp', h) =
                           Append(AttachedPeerGroups(bgp, h),
                                  peer_groups[CHOOSE k \in hits : \A j \in hits : k <= j])
                     /\ NeighborsOf(bgp', h) = Append(NeighborsOf(bgp, h), BgpNeighbor(last'.row))
               /\ hits = {} =>
                     /\ ~ last'.ok
                     /\ AttachedPeerGroups(bgp', h) = AttachedPeerGroups(bgp, h)
                     /\ NeighborsOf(bgp', h) = NeighborsOf(bgp, h)
      ]_vars

\* C19 witness: with two entries named RR-CLIENT in the table, a row that
\* names RR-CLIENT attached the first of them.
C19_Witness ==
    /\ last.op = "bgp_neighbor"
    /\ last.ok
    /\ last.row.peer_group = "RR-CLIENT"
    /\ peer_groups = <<[name |-> "RR-CLIENT", remote_as |-> 65002],
                       [name |-> "RR-CLIENT", remote_as |-> 65001]>>
    /\ AttachedPeerGroups(bgp, last.row.host) = <<[name |-> "RR-CLIENT", remote_as |-> 65002]>>
    /\ Len(NeighborsOf(bgp, last.row.host)) = 1

-----------------------------------------------------------------------------
(* Properties of addresses set through the loader *)

\* the addresses of an interface's routed port (empty without a port)
AddressesAt(ports, i) == IF ports[i] = None THEN <<>> ELSE AddressesOf(ports[i][1])

\* C20: through load_l3_links and load_l3_ports a routed port never holds
\* more than one IPv4 address.
C20_AtMostOneAddress ==
    \A i \in Interfaces : Len(AddressesAt(l3_port, i)) <= 1

====
